---- MODULE Spec2Model ----
(***************************************************************************)
(* Model of the disk-scheduling engine of src/diskscheduler.py: the class  *)
(* DiskScheduler (constructor, add_request and the four policies fcfs,     *)
(* sstf, scan and cscan).  A state is one scheduler object together with   *)
(* the value returned (or the exception raised) by the last call on it.    *)
(* The second DiskScheduler, of src/ui.py, and the page main() of src/ui.py *)
(* that drives it from the session request list, are modelled next to it.  *)
(***************************************************************************)
EXTENDS FiniteSets, Integers, Sequences, TLC

\* ---------------------------------------------------------------- bounds
\* Largest max_cylinder a scheduler is constructed with.
MaxCylinder == 3
\* Largest number of add_request calls made on one scheduler.
MaxCalls == 3

VARIABLES
    initial_position,   \* self.initial_position
    max_cylinder,       \* self.max_cylinder
    requests,           \* self.requests, a Python list
    calls,              \* every cylinder passed to add_request so far, in call order
    result,             \* outcome of the last call on the object
    session_requests    \* st.session_state.requests of the web front-end

vars == <<initial_position, max_cylinder, requests, calls, result, session_requests>>

\* The values scan() is called with: main() passes input(...).lower(), any string.
Directions == {"right", "left", "up"}

\* ------------------------------------------------------ Python built-ins
\* abs(x)
Abs(x) == IF x < 0 THEN 0 - x ELSE x

\* sum(xs)
RECURSIVE Sum(_)
Sum(xs) == IF xs = <<>> THEN 0 ELSE Head(xs) + Sum(Tail(xs))

\* Insertion of x into an ascending list, after the elements equal to it.
RECURSIVE InsertAsc(_, _)
InsertAsc(x, xs) ==
    IF xs = <<>> THEN <<x>>
    ELSE IF x < Head(xs) THEN <<x>> \o xs
    ELSE <<Head(xs)>> \o InsertAsc(x, Tail(xs))

\* Mutation of Sorted: the list is left in insertion order.
Unsorted(xs) == xs

\* sorted(xs)
RECURSIVE Sorted(_)
Sorted(xs) ==
    IF xs = <<>> THEN <<>>
    ELSE InsertAsc(xs[Len(xs)], Sorted(SubSeq(xs, 1, Len(xs) - 1)))

\* Insertion of x into a descending list, after the elements equal to it.
RECURSIVE InsertDesc(_, _)
InsertDesc(x, xs) ==
    IF xs = <<>> THEN <<x>>
    ELSE IF x > Head(xs) THEN <<x>> \o xs
    ELSE <<Head(xs)>> \o InsertDesc(x, Tail(xs))

\* Mutation of SortedReverse: the list is sorted ascending.
SortedForward(xs) == Sorted(xs)

\* sorted(xs, reverse=True)
RECURSIVE SortedReverse(_)
SortedReverse(xs) ==
    IF xs = <<>> THEN <<>>
    ELSE InsertDesc(xs[Len(xs)], SortedReverse(SubSeq(xs, 1, Len(xs) - 1)))

\* Mutation of MinByKey: the element with the largest key is kept.
RECURSIVE MaxByKey(_, _, _)
MaxByKey(remaining, current, best) ==
    IF remaining = <<>> THEN best
    ELSE IF Abs(Head(remaining) - current) > Abs(best - current)
         THEN MaxByKey(Tail(remaining), current, Head(remaining))
         ELSE MaxByKey(Tail(remaining), current, best)

\* Mutation of MinByKey: of the elements with the smallest key the last one
\* is kept.
RECURSIVE MinByKeyLast(_, _, _)
MinByKeyLast(remaining, current, best) ==
    IF remaining = <<>> THEN best
    ELSE IF Abs(Head(remaining) - current) <= Abs(best - current)
         THEN MinByKeyLast(Tail(remaining), current, Head(remaining))
         ELSE MinByKeyLast(Tail(remaining), current, best)

\* min(remaining, key=lambda x: abs(x - current)): the first element, in
\* iteration order, whose key is the smallest.
RECURSIVE MinByKey(_, _, _)
MinByKey(remaining, current, best) ==
    IF remaining = <<>> THEN best
    ELSE IF Abs(Head(remaining) - current) < Abs(best - current)
         THEN MinByKey(Tail(remaining), current, Head(remaining))
         ELSE MinByKey(Tail(remaining), current, best)

\* Mutation of Closest: the request added first is taken.
FirstRemaining(remaining, current) == Head(remaining)

Closest(remaining, current) == MinByKey(Tail(remaining), current, Head(remaining))

\* Mutation of Remove: drops every occurrence of x.
RemoveEvery(xs, x) == SelectSeq(xs, LAMBDA y : y # x)

\* remaining.remove(x): drops the first occurrence of x.
RECURSIVE Remove(_, _)
Remove(xs, x) ==
    IF xs = <<>> THEN <<>>
    ELSE IF Head(xs) = x THEN Tail(xs)
    ELSE <<Head(xs)>> \o Remove(Tail(xs), x)

\* ------------------------------------------------------- the service step
\* Mutation of SeekDistance: the signed difference.
SeekSigned(request, current) == request - current

\* abs(request - current), the cost of one move.
SeekDistance(request, current) == Abs(request - current)

\* The locals of a policy while it runs.
Start(initial) == [current |-> initial, sequence |-> <<>>, seek_operations |-> <<>>]

\* sequence.append(p); seek_operations.append(abs(p - current)); current = p
Visit(st, p) ==
    [current         |-> p,
     sequence        |-> Append(st.sequence, p),
     seek_operations |-> Append(st.seek_operations, SeekDistance(p, st.current))]

\* for request in reqs: <Visit>
RECURSIVE Service(_, _)
Service(st, reqs) ==
    IF reqs = <<>> THEN st ELSE Service(Visit(st, Head(reqs)), Tail(reqs))

\* total_seek = sum(seek_operations); return sequence, total_seek
Return(st) == [sequence |-> st.sequence, total_seek |-> Sum(st.seek_operations)]

\* ------------------------------------------------------------ the policies
\* Mutation of fcfs: services the requests in ascending order.
fcfs_sorted(initial, M, R) == Return(Service(Start(initial), Sorted(R)))

fcfs(initial, M, R) == Return(Service(Start(initial), R))

\* while remaining: closest = min(...); <Visit>; remaining.remove(closest)
RECURSIVE sstf_loop(_, _)
sstf_loop(st, remaining) ==
    IF remaining = <<>> THEN st
    ELSE LET closest == Closest(remaining, st.current)
         IN  sstf_loop(Visit(st, closest), Remove(remaining, closest))

sstf(initial, M, R) == Return(sstf_loop(Start(initial), R))

\* Mutation of scan: the boundary is visited whenever the swept side is not
\* empty, also when the head is already there.
scan_always_boundary(initial, M, R, direction) ==
    LET remaining == Sorted(R)
    IN  IF direction = "right"
        THEN LET right == SelectSeq(remaining, LAMBDA r : r >= initial)
                 left  == SortedReverse(SelectSeq(remaining, LAMBDA r : r < initial))
                 s1    == Service(Start(initial), right)
                 s2    == IF right # <<>> THEN Visit(s1, M) ELSE s1
             IN  Return(Service(s2, left))
        ELSE LET left  == SortedReverse(SelectSeq(remaining, LAMBDA r : r <= initial))
                 right == Sorted(SelectSeq(remaining, LAMBDA r : r > initial))
                 s1    == Service(Start(initial), left)
                 s2    == IF left # <<>> THEN Visit(s1, 0) ELSE s1
             IN  Return(Service(s2, right))

\* Mutation of scan: on the way left a request at the head position is left
\* for the way back.
scan_left_strict(initial, M, R, direction) ==
    LET remaining == Sorted(R)
    IN  IF direction = "right"
        THEN LET right == SelectSeq(remaining, LAMBDA r : r >= initial)
                 left  == SortedReverse(SelectSeq(remaining, LAMBDA r : r < initial))
                 s1    == Service(Start(initial), right)
                 s2    == IF right # <<>> /\ s1.current # M THEN Visit(s1, M) ELSE s1
             IN  Return(Service(s2, left))
        ELSE LET left  == SortedReverse(SelectSeq(remaining, LAMBDA r : r < initial))
                 right == Sorted(SelectSeq(remaining, LAMBDA r : r >= initial))
                 s1    == Service(Start(initial), left)
                 s2    == IF left # <<>> /\ s1.current # 0 THEN Visit(s1, 0) ELSE s1
             IN  Return(Service(s2, right))

scan(initial, M, R, direction) ==
    LET remaining == Sorted(R)
    IN  IF direction = "right"
        THEN LET right == SelectSeq(remaining, LAMBDA r : r >= initial)
                 left  == SortedReverse(SelectSeq(remaining, LAMBDA r : r < initial))
                 s1    == Service(Start(initial), right)
                 s2    == IF right # <<>> /\ s1.current # M THEN Visit(s1, M) ELSE s1
             IN  Return(Service(s2, left))
        ELSE LET left  == SortedReverse(SelectSeq(remaining, LAMBDA r : r <= initial))
                 right == Sorted(SelectSeq(remaining, LAMBDA r : r > initial))
                 s1    == Service(Start(initial), left)
                 s2    == IF left # <<>> /\ s1.current # 0 THEN Visit(s1, 0) ELSE s1
             IN  Return(Service(s2, right))

\* Mutation of cscan: the head wraps to 0 without first going to the end.
cscan_no_end(initial, M, R) ==
    LET remaining == Sorted(R)
        right == SelectSeq(remaining, LAMBDA r : r >= initial)
        left  == SelectSeq(remaining, LAMBDA r : r < initial)
        s1    == Service(Start(initial), right)
        s3    == Visit(s1, 0)
    IN  Return(Service(s3, left))

\* Mutation of cscan: after the wrap the requests are serviced descending.
cscan_left_descending(initial, M, R) ==
    LET remaining == Sorted(R)
        right == SelectSeq(remaining, LAMBDA r : r >= initial)
        left  == SortedReverse(SelectSeq(remaining, LAMBDA r : r < initial))
        s1    == Service(Start(initial), right)
        s2    == IF right # <<>> THEN Visit(s1, M) ELSE s1
        s3    == Visit(s2, 0)
    IN  Return(Service(s3, left))

cscan(initial, M, R) ==
    LET remaining == Sorted(R)
        right == SelectSeq(remaining, LAMBDA r : r >= initial)
        left  == SelectSeq(remaining, LAMBDA r : r < initial)
        s1    == Service(Start(initial), right)
        s2    == IF right # <<>> THEN Visit(s1, M) ELSE s1
        s3    == Visit(s2, 0)
    IN  Return(Service(s3, left))

\* Mutation of RequestsAfterSstf: the loop consumes self.requests itself.
RequestsAfterSstfAliased(R) == <<>>

\* self.requests after sstf(): remaining is self.requests.copy(), so the
\* removals of the loop do not reach the list of the object.
RequestsAfterSstf(R) == R

\* ------------------------------------------------------------ the object
\* Mutation of InRange: the lower limit is not tested.
InRangeNoLower(cylinder, M) == cylinder <= M

\* 0 <= cylinder <= self.max_cylinder
InRange(cylinder, M) == 0 <= cylinder /\ cylinder <= M

Outcome(op, direction, raised, sequence, total_seek) ==
    [op |-> op, direction |-> direction, raised |-> raised,
     sequence |-> sequence, total_seek |-> total_seek]

Returned(op, direction, r) == Outcome(op, direction, "none", r.sequence, r.total_seek)

\* DiskScheduler(initial_position, max_cylinder): no argument is validated.
Init ==
    /\ max_cylinder \in 1..MaxCylinder
    /\ initial_position \in (0 - 1)..(max_cylinder + 1)
    /\ requests = <<>>
    /\ calls = <<>>
    /\ result = Outcome("__init__", "", "none", <<>>, 0)
    /\ session_requests = <<>>

add_request(cylinder) ==
    /\ calls' = Append(calls, cylinder)
    /\ IF InRange(cylinder, max_cylinder)
       THEN /\ requests' = Append(requests, cylinder)
            /\ result' = Outcome("add_request", "", "none", <<>>, 0)
       ELSE /\ requests' = requests
            /\ result' = Outcome("add_request", "", "ValueError", <<>>, 0)
    /\ UNCHANGED <<initial_position, max_cylinder, session_requests>>

CallAddRequest ==
    /\ Len(calls) < MaxCalls
    /\ \E cylinder \in (0 - 1)..(max_cylinder + 1) : add_request(cylinder)

CallFcfs ==
    /\ result' = Returned("fcfs", "", fcfs(initial_position, max_cylinder, requests))
    /\ UNCHANGED <<initial_position, max_cylinder, requests, calls, session_requests>>

CallSstf ==
    /\ result' = Returned("sstf", "", sstf(initial_position, max_cylinder, requests))
    /\ requests' = RequestsAfterSstf(requests)
    /\ UNCHANGED <<initial_position, max_cylinder, calls, session_requests>>

CallScan ==
    \E direction \in Directions :
        /\ result' = Returned("scan", direction,
                              scan(initial_position, max_cylinder, requests, direction))
        /\ UNCHANGED <<initial_position, max_cylinder, requests, calls, session_requests>>

CallCscan ==
    /\ result' = Returned("cscan", "", cscan(initial_position, max_cylinder, requests))
    /\ UNCHANGED <<initial_position, max_cylinder, requests, calls, session_requests>>

Next == CallAddRequest \/ CallFcfs \/ CallSstf \/ CallScan \/ CallCscan

Spec == Init /\ [][Next]_vars

\* ------------------------------------------- the scheduler of the scenario
\* The worked example: head at 50 on a disk of 200 cylinders.
ScenarioHead == 50
ScenarioMaxCylinder == 200
ScenarioRequests == <<82, 170, 43, 140, 24, 16, 190>>

\* The cylinders asked for in the example, and one beyond the disk.
ScenarioCylinders ==
    {ScenarioRequests[i] : i \in 1..Len(ScenarioRequests)} \cup {ScenarioMaxCylinder + 1}

\* DiskScheduler(50, 200)
ScenarioInit ==
    /\ initial_position = ScenarioHead
    /\ max_cylinder = ScenarioMaxCylinder
    /\ requests = <<>>
    /\ calls = <<>>
    /\ result = Outcome("__init__", "", "none", <<>>, 0)
    /\ session_requests = <<>>

\* add_request with any cylinder of the example, a few times.
ScenarioAddAny ==
    /\ Len(calls) < MaxCalls
    /\ \E cylinder \in ScenarioCylinders : add_request(cylinder)

\* add_request with the next cylinder of the example, up to the whole list.
ScenarioAddNext ==
    /\ Len(calls) < Len(ScenarioRequests)
    /\ calls = SubSeq(ScenarioRequests, 1, Len(calls))
    /\ add_request(ScenarioRequests[Len(calls) + 1])

NextScenario ==
    ScenarioAddAny \/ ScenarioAddNext \/ CallFcfs \/ CallSstf \/ CallScan \/ CallCscan

SpecScenario == ScenarioInit /\ [][NextScenario]_vars

\* ------------------------------------------- the DiskScheduler of src/ui.py
\* 0 <= cylinder <= self.max_cylinder
ui_InRange(cylinder, M) == 0 <= cylinder /\ cylinder <= M

\* for request in sequence: seek_operations.append(abs(request - current)); current = request
RECURSIVE ui_seek_operations(_, _, _)
ui_seek_operations(current, sequence, seek_operations) ==
    IF sequence = <<>> THEN seek_operations
    ELSE ui_seek_operations(Head(sequence), Tail(sequence),
                            Append(seek_operations, Abs(Head(sequence) - current)))

ui_fcfs(initial, M, R) ==
    LET sequence == R
    IN  [sequence |-> sequence,
         total_seek |-> Sum(ui_seek_operations(initial, sequence, <<>>))]

\* The locals of sstf, scan and cscan while they run.
ui_Start(initial) == [current |-> initial, sequence |-> <<>>, total_seek |-> 0]

\* sequence.append(p); total_seek += abs(p - current); current = p
ui_Visit(st, p) ==
    [current    |-> p,
     sequence   |-> Append(st.sequence, p),
     total_seek |-> st.total_seek + Abs(p - st.current)]

\* for req in reqs: <ui_Visit>
RECURSIVE ui_Service(_, _)
ui_Service(st, reqs) ==
    IF reqs = <<>> THEN st ELSE ui_Service(ui_Visit(st, Head(reqs)), Tail(reqs))

\* return sequence, total_seek
ui_Return(st) == [sequence |-> st.sequence, total_seek |-> st.total_seek]

\* if not self.requests: return [], 0
ui_Empty == [sequence |-> <<>>, total_seek |-> 0]

RECURSIVE ui_sstf_loop(_, _)
ui_sstf_loop(st, remaining) ==
    IF remaining = <<>> THEN st
    ELSE LET closest == Closest(remaining, st.current)
         IN  ui_sstf_loop(ui_Visit(st, closest), Remove(remaining, closest))

ui_sstf(initial, M, R) ==
    IF R = <<>> THEN ui_Empty ELSE ui_Return(ui_sstf_loop(ui_Start(initial), R))

ui_scan(initial, M, R, direction) ==
    IF R = <<>> THEN ui_Empty
    ELSE LET remaining == Sorted(R)
         IN  IF direction = "right"
             THEN LET right == SelectSeq(remaining, LAMBDA r : r >= initial)
                      left  == SortedReverse(SelectSeq(remaining, LAMBDA r : r < initial))
                      s1    == ui_Service(ui_Start(initial), right)
                      s2    == IF right # <<>> /\ s1.current # M
                               THEN ui_Visit(s1, M) ELSE s1
                  IN  ui_Return(ui_Service(s2, left))
             ELSE LET left  == SortedReverse(SelectSeq(remaining, LAMBDA r : r <= initial))
                      right == Sorted(SelectSeq(remaining, LAMBDA r : r > initial))
                      s1    == ui_Service(ui_Start(initial), left)
                      s2    == IF left # <<>> /\ s1.current # 0
                               THEN ui_Visit(s1, 0) ELSE s1
                  IN  ui_Return(ui_Service(s2, right))

ui_cscan(initial, M, R) ==
    IF R = <<>> THEN ui_Empty
    ELSE LET remaining == Sorted(R)
             right == SelectSeq(remaining, LAMBDA r : r >= initial)
             left  == SelectSeq(remaining, LAMBDA r : r < initial)
             s1    == ui_Service(ui_Start(initial), right)
             s2    == IF right # <<>> THEN ui_Visit(s1, M) ELSE s1
             s3    == ui_Visit(s2, 0)
         IN  ui_Return(ui_Service(s3, left))

\* ------------------------------------------------- the page of src/ui.py
\* The values of the two number inputs when the page is first shown.
UiDefaultPosition == 50
UiDefaultMaxCylinder == 200

\* The selectbox and the radio of the page.
UiAlgorithms == {"FCFS", "SSTF", "SCAN", "C-SCAN"}
UiDirections == {"left", "right"}

\* A rerun of main() that does not run a simulation builds no scheduler and
\* shows no result.
UiNoRun ==
    /\ requests' = <<>>
    /\ calls' = <<>>
    /\ result' = Outcome("main", "", "none", <<>>, 0)

\* First visit of the page: widgets at their defaults, empty session list.
UiInit ==
    /\ initial_position = UiDefaultPosition
    /\ max_cylinder = UiDefaultMaxCylinder
    /\ session_requests = <<>>
    /\ requests = <<>>
    /\ calls = <<>>
    /\ result = Outcome("main", "", "none", <<>>, 0)

\* number_input "Initial Head Position": min_value=0, no maximum.
UiSetInitialPosition ==
    /\ \E p \in 0..(MaxCylinder + 1) : initial_position' = p
    /\ UNCHANGED <<max_cylinder, session_requests>>
    /\ UiNoRun

\* number_input "Maximum Cylinder": min_value=1.
UiSetMaxCylinder ==
    /\ \E m \in 1..MaxCylinder : max_cylinder' = m
    /\ UNCHANGED <<initial_position, session_requests>>
    /\ UiNoRun

\* number_input "Add New Request" (0..max_cylinder) and the button "Add Request".
UiAddRequest ==
    /\ Len(session_requests) < MaxCalls
    /\ \E new_request \in 0..MaxCylinder :
           /\ new_request <= max_cylinder
           /\ session_requests' = Append(session_requests, new_request)
    /\ UNCHANGED <<initial_position, max_cylinder>>
    /\ UiNoRun

\* The button "Clear All Requests".
UiClear ==
    /\ session_requests' = <<>>
    /\ UNCHANGED <<initial_position, max_cylinder>>
    /\ UiNoRun

\* for req in st.session_state.requests: scheduler.add_request(req), up to
\* the first request that raises.
RECURSIVE ui_add_all(_, _, _)
ui_add_all(M, todo, built) ==
    IF todo = <<>> THEN built
    ELSE IF ui_InRange(Head(todo), M)
         THEN ui_add_all(M, Tail(todo),
                         [requests |-> Append(built.requests, Head(todo)),
                          calls    |-> Append(built.calls, Head(todo)),
                          raised   |-> "none"])
         ELSE [requests |-> built.requests,
               calls    |-> Append(built.calls, Head(todo)),
               raised   |-> "ValueError"]

\* The method the selectbox stands for, on the scheduler just built.
ui_run(algorithm, direction, initial, M, R) ==
    CASE algorithm = "FCFS"   -> ui_fcfs(initial, M, R)
      [] algorithm = "SSTF"   -> ui_sstf(initial, M, R)
      [] algorithm = "SCAN"   -> ui_scan(initial, M, R, direction)
      [] algorithm = "C-SCAN" -> ui_cscan(initial, M, R)

\* The button "Run Simulation".
UiRun ==
    \E algorithm \in UiAlgorithms : \E scan_direction \in UiDirections :
        /\ algorithm # "SCAN" => scan_direction = "right"
        /\ IF session_requests = <<>>
           THEN /\ result' = Outcome(algorithm, scan_direction, "NoRequests", <<>>, 0)
                /\ requests' = <<>>
                /\ calls' = <<>>
           ELSE LET built == ui_add_all(max_cylinder, session_requests,
                                        [requests |-> <<>>, calls |-> <<>>, raised |-> "none"])
                IN  /\ requests' = built.requests
                    /\ calls' = built.calls
                    /\ result' =
                           IF built.raised = "none"
                           THEN Returned(algorithm, scan_direction,
                                         ui_run(algorithm, scan_direction, initial_position,
                                                max_cylinder, built.requests))
                           ELSE Outcome(algorithm, scan_direction, built.raised, <<>>, 0)
        /\ UNCHANGED <<initial_position, max_cylinder, session_requests>>

NextUi == UiSetInitialPosition \/ UiSetMaxCylinder \/ UiAddRequest \/ UiClear \/ UiRun

SpecUi == UiInit /\ [][NextUi]_vars

\* ------------------------------------------------------------ vocabulary
Policies == {"fcfs", "sstf", "scan", "cscan"}

\* The last call was a policy call that returned a schedule.
Scheduled == result.op \in Policies /\ result.raised = "none"

\* 0 <= h <= M
ValidHead == 0 <= initial_position /\ initial_position <= max_cylinder

\* scan was called with one of its two documented directions (or another policy ran).
ValidDirection == result.op = "scan" => result.direction \in {"left", "right"}

TypeOK ==
    /\ max_cylinder \in 1..MaxCylinder
    /\ initial_position \in (0 - 1)..(max_cylinder + 1)
    /\ requests \in Seq(0..max_cylinder)
    /\ Len(calls) <= MaxCalls

\* The two directions scan documents.
ScanRan == result.op = "scan" /\ result.direction \in {"left", "right"}

\* Number of occurrences of v in xs.
Count(xs, v) == Cardinality({i \in 1..Len(xs) : xs[i] = v})

\* v occurs in xs.
Occurs(xs, v) == \E i \in 1..Len(xs) : xs[i] = v

\* a is visited and b is the very next visit.
Adjacent(xs, a, b) == \E i \in 1..(Len(xs) - 1) : xs[i] = a /\ xs[i + 1] = b

\* The walk that starts at prev and visits xs, measured move by move.
RECURSIVE Replay(_, _)
Replay(prev, xs) ==
    IF xs = <<>> THEN 0
    ELSE (IF Head(xs) >= prev THEN Head(xs) - prev ELSE prev - Head(xs))
         + Replay(Head(xs), Tail(xs))

\* Some request lies at or to the right of the initial head position.
SomeRequestRight == \E i \in 1..Len(requests) : requests[i] >= initial_position

\* Some request lies at or to the left of the initial head position.
SomeRequestLeft == \E i \in 1..Len(requests) : requests[i] <= initial_position

\* ------------------------------------------------------------------ C1
\* C1 (as claimed): with a valid head position and no request added, every
\* policy (fcfs, sstf, scan right, scan left, cscan) returns ([], 0).
C1_EmptyReturnsEmpty ==
    (ValidHead /\ requests = <<>> /\ Scheduled /\ ValidDirection)
        => (result.sequence = <<>> /\ result.total_seek = 0)

\* ------------------------------------------------------------------ C2
\* C2: for every policy and every valid input the reported total_seek is the
\* length of the walk that starts at the initial head position and visits the
\* returned sequence in order; it is a non-negative integer.
C2_TotalSeekIsReplay ==
    (ValidHead /\ Scheduled /\ ValidDirection)
        => /\ result.total_seek = Replay(initial_position, result.sequence)
           /\ result.total_seek \in Nat

\* A cscan run over two requests that moves the head.
C2_Witness ==
    /\ ValidHead
    /\ result.op = "cscan"
    /\ Len(requests) = 2
    /\ Len(result.sequence) = 4
    /\ result.total_seek > max_cylinder

Swept(direction) ==
    IF direction = "right"
    THEN SelectSeq(requests, LAMBDA r : r >= initial_position)
    ELSE SelectSeq(requests, LAMBDA r : r <= initial_position)

\* The boundary scan sweeps towards.
Boundary(direction) == IF direction = "right" THEN max_cylinder ELSE 0

\* C4: scan appends the boundary of the swept side (M for right, 0 for left)
\* exactly when some request lay on that side and the last request serviced
\* there is not the boundary itself; the boundary then follows the swept
\* requests directly. Otherwise nothing is appended.
C4_ScanBoundaryIff ==
    (ValidHead /\ ScanRan)
        => LET swept    == Swept(result.direction)
               boundary == Boundary(result.direction)
               n        == Len(swept)
           IN  IF n > 0 /\ ~Occurs(swept, boundary)
               THEN /\ Len(result.sequence) = Len(requests) + 1
                    /\ result.sequence[n + 1] = boundary
                    /\ Count(result.sequence, boundary) = 1
               ELSE /\ Len(result.sequence) = Len(requests)
                    /\ Count(result.sequence, boundary) = Count(requests, boundary)

\* A scan to the right that serviced a request there, went on to M and came
\* back for a request on the left.
C4_Witness ==
    /\ ValidHead
    /\ ScanRan
    /\ result.direction = "right"
    /\ Len(requests) >= 2
    /\ Len(Swept("right")) = 1
    /\ Len(result.sequence) = Len(requests) + 1

\* ------------------------------------------------------------------ C5
\* C5: fcfs returns the request list itself: same elements, same order,
\* duplicates kept, nothing added or dropped.
C5_FcfsOrderPreserving ==
    result.op = "fcfs" => result.sequence = requests

\* An fcfs run over a list that is not ascending and holds a duplicate.
C5_Witness ==
    /\ result.op = "fcfs"
    /\ Len(requests) = 3
    /\ requests[1] > requests[2]
    /\ requests[1] = requests[3]

\* ------------------------------------------------------------------ C6
\* 1 when the condition holds, else 0.
Bit(b) == IF b THEN 1 ELSE 0

\* Every cylinder occurs in the sequence as often as in the requests, plus
\* extraM occurrences of M and extra0 occurrences of 0.
Serviced(extraM, extra0) ==
    /\ \A v \in 0..max_cylinder :
           Count(result.sequence, v)
               = Count(requests, v) + Bit(v = max_cylinder) * extraM
                                    + Bit(v = 0) * extra0
    /\ Len(result.sequence) = Len(requests) + extraM + extra0

\* fcfs and sstf add nothing; scan adds at most one visit, to the boundary of
\* the swept side.
C6_NoCscan ==
    /\ result.op \in {"fcfs", "sstf"} => Serviced(0, 0)
    /\ (ScanRan /\ result.direction = "right") => (Serviced(0, 0) \/ Serviced(1, 0))
    /\ (ScanRan /\ result.direction = "left") => (Serviced(0, 0) \/ Serviced(0, 1))

Accepted == SelectSeq(calls, LAMBDA c : 0 <= c /\ c <= max_cylinder)

\* What one add_request call must do with the candidate it was given.
C7_Step ==
    calls' # calls =>
        LET c == calls'[Len(calls')]
        IN  IF c < 0 \/ c > max_cylinder
            THEN requests' = requests /\ result'.raised = "ValueError"
            ELSE requests' = Append(requests, c) /\ result'.raised = "none"

\* C7: add_request with a cylinder outside [0, max_cylinder] raises and
\* leaves the request list unchanged, inside the range it appends at the
\* end; so the request list is the list of accepted candidates in call order
\* and all its elements lie in [0, max_cylinder].
C7_AddRequestGate ==
    /\ [](/\ requests = Accepted
          /\ \A i \in 1..Len(requests) : requests[i] \in 0..max_cylinder)
    /\ [][C7_Step]_vars

\* A rejected call made after an accepted one.
C7_Witness ==
    /\ result.op = "add_request"
    /\ result.raised = "ValueError"
    /\ requests # <<>>
    /\ Len(calls) = Len(requests) + 1

\* ------------------------------------------------------------------ C8
\* C8 (as claimed): a scheduler whose initial head position is outside
\* [0, max_cylinder] never returns a schedule from any policy.
C8_InvalidHeadRejected == ~ValidHead => ~Scheduled

\* ------------------------------------------------------------------ C9
\* C9 (as claimed): scan called with a direction other than left or right
\* reports InvalidDirection and returns no schedule.
C9_InvalidDirectionRejected ==
    (result.op = "scan" /\ result.direction \notin {"left", "right"})
        => (result.raised = "InvalidDirection" /\ result.sequence = <<>>)

\* ------------------------------------------------------------------ C10
\* What the policy named op returns on the scheduler (h, M, R).
Run(op, direction, h, M, R) ==
    CASE op = "fcfs"  -> Returned(op, direction, fcfs(h, M, R))
      [] op = "sstf"  -> Returned(op, direction, sstf(h, M, R))
      [] op = "scan"  -> Returned(op, direction, scan(h, M, R, direction))
      [] op = "cscan" -> Returned(op, direction, cscan(h, M, R))

\* C10: a policy call leaves requests, initial_position and max_cylinder as
\* they were, so what it returned is what the same call returns on the
\* scheduler it leaves behind, whatever policies were called before.
C10_PoliciesAreReadOnly ==
    [][result'.op \in Policies =>
          /\ requests' = requests
          /\ initial_position' = initial_position
          /\ max_cylinder' = max_cylinder
          /\ result' = Run(result'.op, result'.direction,
                           initial_position', max_cylinder', requests')]_vars

\* sstf has serviced three requests and the scheduler still holds them.
C10_Witness ==
    /\ result.op = "sstf"
    /\ Len(result.sequence) = 3
    /\ Len(requests) = 3

\* ------------------------------------------------------------------ C11
\* Every list that holds the elements of xs, each as often as xs does.
RECURSIVE Reorderings(_)
Reorderings(xs) ==
    IF xs = <<>> THEN {<<>>}
    ELSE UNION {{<<xs[i]>> \o p :
                    p \in Reorderings(SubSeq(xs, 1, i - 1) \o SubSeq(xs, i + 1, Len(xs)))} :
                i \in 1..Len(xs)}

\* At no step of the greedy walk from current over remaining are two
\* different cylinders nearest to the head.
RECURSIVE TieFree(_, _)
TieFree(current, remaining) ==
    IF remaining = <<>> THEN TRUE
    ELSE \E i \in 1..Len(remaining) :
            /\ \A j \in 1..Len(remaining) :
                   \/ remaining[j] = remaining[i]
                   \/ Abs(remaining[j] - current) > Abs(remaining[i] - current)
            /\ TieFree(remaining[i],
                       SubSeq(remaining, 1, i - 1) \o SubSeq(remaining, i + 1, Len(remaining)))

\* The last call returns the same on every reordering of the request list.
OrderIndependent ==
    \A P \in Reorderings(requests) :
        Run(result.op, result.direction, initial_position, max_cylinder, P) = result

\* C11 (as claimed): sstf, scan and cscan return the same sequence and the
\* same total seek on any two request lists that are permutations of each
\* other.
C11_OrderIrrelevant ==
    (ValidHead /\ Scheduled /\ ValidDirection /\ result.op \in {"sstf", "scan", "cscan"})
        => OrderIndependent

\* C11 (amended): scan and cscan return the same sequence and the same total
\* seek on any two request lists that are permutations of each other; sstf
\* does so when at no step two different unserviced cylinders are equally
\* near to the head.
C11_OrderIrrelevantUnlessTie ==
    (ValidHead /\ Scheduled /\ ValidDirection)
        => /\ result.op \in {"scan", "cscan"} => OrderIndependent
           /\ (result.op = "sstf" /\ TieFree(initial_position, requests))
                  => OrderIndependent

\* scan ran over three different requests that were not added in ascending
\* order.
C11_Witness ==
    /\ ValidHead
    /\ ScanRan
    /\ Len(requests) = 3
    /\ requests[1] > requests[2]
    /\ requests[2] > requests[3]

\* ------------------------------------------------------------------ C12
\* The total seek fcfs returns on the scheduler as it is.
FcfsTotal == fcfs(initial_position, max_cylinder, requests).total_seek

\* C12 (as claimed): on the same input the total seek of sstf never exceeds
\* the total seek of fcfs.
C12_SstfNeverWorse ==
    (ValidHead /\ result.op = "sstf") => result.total_seek <= FcfsTotal

\* C12 (amended): on the same input with at most two requests the total seek
\* of sstf never exceeds the total seek of fcfs.
C12_SstfNeverWorseUpToTwo ==
    (ValidHead /\ result.op = "sstf" /\ Len(requests) <= 2)
        => result.total_seek <= FcfsTotal

\* sstf ran over two requests and beat fcfs.
C12_Witness ==
    /\ ValidHead
    /\ result.op = "sstf"
    /\ Len(requests) = 2
    /\ result.total_seek < FcfsTotal

\* ------------------------------------------------------------------ C13
\* C13: with h = 50, M = 200 and the requests 82, 170, 43, 140, 24, 16, 190
\* added in this order, fcfs returns ([82,170,43,140,24,16,190], 642), sstf
\* ([43,24,16,82,140,170,190], 208), scan right
\* ([82,140,170,190,200,43,24,16], 334) and cscan
\* ([82,140,170,190,200,0,16,24,43], 393).
C13_Scenario ==
    (/\ initial_position = 50
     /\ max_cylinder = 200
     /\ requests = <<82, 170, 43, 140, 24, 16, 190>>)
        => /\ result.op = "fcfs" =>
                  /\ result.sequence = <<82, 170, 43, 140, 24, 16, 190>>
                  /\ result.total_seek = 642
           /\ result.op = "sstf" =>
                  /\ result.sequence = <<43, 24, 16, 82, 140, 170, 190>>
                  /\ result.total_seek = 208
           /\ (result.op = "scan" /\ result.direction = "right") =>
                  /\ result.sequence = <<82, 140, 170, 190, 200, 43, 24, 16>>
                  /\ result.total_seek = 334
           /\ result.op = "cscan" =>
                  /\ result.sequence = <<82, 140, 170, 190, 200, 0, 16, 24, 43>>
                  /\ result.total_seek = 393

\* cscan ran on the scheduler of the example.
C13_Witness ==
    /\ initial_position = 50
    /\ max_cylinder = 200
    /\ requests = <<82, 170, 43, 140, 24, 16, 190>>
    /\ result.op = "cscan"
    /\ Len(result.sequence) = 9

\* ------------------------------------------------------------------ C14
\* The head position before visit i of the returned sequence.
HeadBefore(i) == IF i = 1 THEN initial_position ELSE result.sequence[i - 1]

\* How many requests for cylinder v are still unserviced before visit i.
Unserviced(v, i) == Count(requests, v) - Count(SubSeq(result.sequence, 1, i - 1), v)

\* C14: every visit of sstf goes to a request that is still unserviced and
\* that is as near to the head as any unserviced request; one occurrence is
\* consumed per step and the walk has exactly |R| steps.
C14_SstfGreedy ==
    result.op = "sstf" =>
        /\ Len(result.sequence) = Len(requests)
        /\ \A i \in 1..Len(result.sequence) :
               /\ Unserviced(result.sequence[i], i) > 0
               /\ \A j \in 1..Len(requests) :
                      Unserviced(requests[j], i) > 0 =>
                          Abs(result.sequence[i] - HeadBefore(i))
                              <= Abs(requests[j] - HeadBefore(i))

\* sstf serviced three requests in an order that is not the insertion order.
C14_Witness ==
    /\ result.op = "sstf"
    /\ Len(requests) = 3
    /\ result.sequence # requests
    /\ result.sequence[1] # requests[1]

\* ------------------------------------------------------------------ C15
\* xs without the first occurrence of x.
WithoutFirst(xs, x) ==
    IF ~Occurs(xs, x) THEN xs
    ELSE LET k == CHOOSE i \in 1..Len(xs) :
                     xs[i] = x /\ \A j \in 1..(i - 1) : xs[j] # x
         IN  SubSeq(xs, 1, k - 1) \o SubSeq(xs, k + 1, Len(xs))

\* The unserviced requests before visit i, in insertion order.
RECURSIVE RemainingBefore(_)
RemainingBefore(i) ==
    IF i = 1 THEN requests
    ELSE WithoutFirst(RemainingBefore(i - 1), result.sequence[i - 1])

\* C15: when several unserviced requests are equally near to the head, sstf
\* services the one added earliest (lowest index in the remaining list), be
\* its cylinder the lower or the higher one.
C15_SstfTieByInsertion ==
    result.op = "sstf" =>
        \A i \in 1..Len(result.sequence) :
            LET remaining == RemainingBefore(i)
                chosen    == result.sequence[i]
            IN  \E k \in 1..Len(remaining) :
                    /\ remaining[k] = chosen
                    /\ \A j \in 1..(k - 1) :
                           Abs(remaining[j] - HeadBefore(i))
                               > Abs(chosen - HeadBefore(i))

\* Two requests were equally near and sstf took the higher cylinder, added
\* first.
C15_Witness ==
    /\ result.op = "sstf"
    /\ Len(requests) >= 2
    /\ requests[1] > requests[2]
    /\ requests[1] - initial_position = initial_position - requests[2]
    /\ result.sequence[1] = requests[1]

\* ------------------------------------------------------------------ C16
\* xs never decreases between positions a and b.
Ascending(xs, a, b) == \A i \in a..(b - 1) : xs[i] <= xs[i + 1]

\* xs never increases between positions a and b.
Descending(xs, a, b) == \A i \in a..(b - 1) : xs[i] >= xs[i + 1]

\* The head path: the initial position followed by the visits.
Path == <<initial_position>> \o result.sequence

\* C16: scan right visits the requests >= h ascending, then the boundary M if
\* it is visited, then the requests < h descending: the path from h rises and
\* then falls, with at most one reversal, and no request < h is serviced
\* before a request >= h.
C16_ScanRightOrder ==
    (ValidHead /\ ScanRan /\ result.direction = "right")
        => LET seq == result.sequence
               n   == Len(Swept("right"))
               b   == Len(seq) - Len(requests)
           IN  /\ b \in {0, 1}
               /\ \A i \in 1..n : seq[i] >= initial_position
               /\ Ascending(seq, 1, n)
               /\ b = 1 => seq[n + 1] = max_cylinder
               /\ \A i \in (n + b + 1)..Len(seq) : seq[i] < initial_position
               /\ Descending(seq, n + b + 1, Len(seq))
               /\ Ascending(Path, 1, n + b + 1)
               /\ Descending(Path, n + b + 1, Len(Path))
               /\ \A i \in 1..Len(seq) : \A j \in (i + 1)..Len(seq) :
                      seq[i] < initial_position => seq[j] < initial_position

\* scan right serviced one side, visited M and came back for two different
\* requests.
C16_Witness ==
    /\ ValidHead
    /\ ScanRan
    /\ result.direction = "right"
    /\ Len(requests) = 3
    /\ Len(result.sequence) = 4
    /\ Len(Swept("right")) = 1
    /\ result.sequence[3] > result.sequence[4]

\* ------------------------------------------------------------------ C17
\* C17: on a request list that is not empty, cscan visits the requests >= h
\* ascending before the wrap and the requests < h ascending after the visit
\* to 0; but for the one move to 0 the path from h never decreases, and that
\* move is charged its full length.
C17_CscanOrder ==
    (ValidHead /\ result.op = "cscan" /\ requests # <<>>)
        => LET seq  == result.sequence
               n    == Len(Swept("right"))
               w    == n + Bit(n > 0) + 1
               last == seq[Len(seq)]
               top  == Path[w]
           IN  /\ Len(seq) = Len(requests) + Bit(n > 0) + 1
               /\ \A i \in 1..n : seq[i] >= initial_position
               /\ n > 0 => seq[n + 1] = max_cylinder
               /\ seq[w] = 0
               /\ \A i \in (w + 1)..Len(seq) : seq[i] < initial_position
               /\ Ascending(Path, 1, w)
               /\ Ascending(seq, w, Len(seq))
               /\ result.total_seek = (top - initial_position) + top + last

\* cscan serviced a request on the right, went to M, wrapped and serviced two
\* different requests on the left.
C17_Witness ==
    /\ ValidHead
    /\ result.op = "cscan"
    /\ Len(requests) = 3
    /\ Len(Swept("right")) = 1
    /\ result.sequence[4] < result.sequence[5]

\* ------------------------------------------------------------------ C19
\* Every position p of xs replaced by M - p.
Mirror(xs) == [i \in 1..Len(xs) |-> max_cylinder - xs[i]]

\* C19: scan left on (h, M, R) returns the mirror image (p to M - p) of what
\* scan right returns on (M - h, M, [M - r for r in R]), with the same total
\* seek.
C19_ScanLeftMirrorsRight ==
    (ValidHead /\ ScanRan /\ result.direction = "left")
        => LET mirrored == scan(max_cylinder - initial_position, max_cylinder,
                                Mirror(requests), "right")
           IN  /\ result.sequence = Mirror(mirrored.sequence)
               /\ result.total_seek = mirrored.total_seek

\* scan left met a request at the head position, visited 0 and came back for
\* a request on the right.
C19_Witness ==
    /\ ValidHead
    /\ ScanRan
    /\ result.direction = "left"
    /\ Len(requests) >= 2
    /\ Occurs(requests, initial_position)
    /\ Len(result.sequence) = Len(requests) + 1
    /\ result.sequence[Len(result.sequence)] > initial_position

\* ------------------------------------------------------------------ C18
\* C18 (as claimed): in the web front-end every request of the session list
\* lies in [0, current max_cylinder] after any sequence of user actions, and
\* Run Simulation never fails on a request accepted earlier.
C18_SessionRequestsInRange ==
    /\ \A i \in 1..Len(session_requests) :
           0 <= session_requests[i] /\ session_requests[i] <= max_cylinder
    /\ result.raised # "ValueError"

\* ------------------------------------------------------------------ C20
\* What the DiskScheduler of src/ui.py returns for the call named op.
UiCounterpart(op, direction, h, M, R) ==
    CASE op = "fcfs"  -> Returned(op, direction, ui_fcfs(h, M, R))
      [] op = "sstf"  -> Returned(op, direction, ui_sstf(h, M, R))
      [] op = "scan"  -> Returned(op, direction, ui_scan(h, M, R, direction))
      [] op = "cscan" -> Returned(op, direction, ui_cscan(h, M, R))

\* C20 (as claimed): the DiskScheduler of src/diskscheduler.py and the one of
\* src/ui.py return the same (sequence, total_seek) from fcfs, sstf, scan and
\* cscan for every h, M, request list and direction, and their add_request
\* accepts the same candidates.
C20_ImplementationsAgree ==
    /\ result.op \in Policies =>
           result = UiCounterpart(result.op, result.direction,
                                  initial_position, max_cylinder, requests)
    /\ \A cylinder \in (0 - 1)..(max_cylinder + 1) :
           InRange(cylinder, max_cylinder) = ui_InRange(cylinder, max_cylinder)

====
